---- MODULE Spec2Model ----
(***************************************************************************)
(* The per-type coder table of internal/impl (makeCoderMethods) and the    *)
(* size / marshal entry points that walk it (sizePointer, sizePointerSlow, *)
(* marshalAppendPointer, sizeExtensions, appendExtensions).                *)
(*                                                                         *)
(* A byte buffer is a sequence of small integers.  A coderFieldInfo        *)
(* pointer is the record it points to: the build creates one record per    *)
(* field number, so equal records are the same pointer.                    *)
(***************************************************************************)
EXTENDS Integers, Sequences, FiniteSets, TLC

VARIABLES
    desc,         \* the message descriptor and the build flag (schema layer)
    si,           \* structInfo: which of the three slots the Go struct has
    mi,           \* the MessageInfo's coderMessageInfo
    m,            \* one message instance of the type
    last,         \* what the most recent completed call did and returned; in the
                  \* concurrent specification, the values returned so far
    scratchRet,   \* value returned by the most recent sizePointerSlow, or -1
    thr           \* the goroutines of the concurrent specification

vars == <<desc, si, mi, m, last, scratchRet, thr>>

----------------------------------------------------------------------------
(* Bounds of the model.                                                    *)

\* most fields of a type in the table-build specification
MaxFields == 3
\* longest unknown-bytes blob of an instance
MaxUnknown == 1
\* longest input buffer handed to marshal
MaxBuf == 1
\* size calls one goroutine makes in the concurrent specification
MaxCalls == 2
\* goroutines calling size on the one instance
MaxGoroutines == 2

\* field numbers of the types built in the table-build specification
BuildNums == {1, 2, 8, 15, 16, 17, 33}
\* field numbers of the types whose instances are sized and marshalled
FieldNums == {1, 2}
\* extension field numbers an instance may carry
ExtNums == {3, 5, 9}

----------------------------------------------------------------------------
(* Sequences.                                                              *)

Range(s) == {s[i] : i \in 1..Len(s)}

\* less is the comparison as a function: less[x, y] is the call less(x, y)
RECURSIVE Insert(_, _, _)
Insert(s, x, less) ==
    IF s = <<>> THEN <<x>>
    ELSE IF less[x, Head(s)] THEN <<x>> \o s
    ELSE <<Head(s)>> \o Insert(Tail(s), x, less)

\* sort.Slice / sort.Ints under a strict total order: the one sorted permutation
RECURSIVE SortSlice(_, _)
SortSlice(s, less) ==
    IF s = <<>> THEN <<>>
    ELSE Insert(SortSlice(Tail(s), less), Head(s), less)

\* the sequences that list every element of S exactly once
Perms(S) == {s \in [1..Cardinality(S) -> S] : Range(s) = S}

Max(S) == CHOOSE x \in S : \A y \in S : y <= x

----------------------------------------------------------------------------
(* Table build: makeCoderMethods.                                          *)

\* a nil *coderFieldInfo
Nil == [nil |-> TRUE]

\* the coderMessageInfo before MessageInfo.init has run
ZeroMessageInfo ==
    [built |-> FALSE, panicked |-> FALSE, outOfRange |-> FALSE,
     orderedCoderFields |-> <<>>, denseCoderFields |-> <<>>,
     denseWrites |-> <<>>, coderFields |-> <<>>,
     sizecacheOffset |-> FALSE, unknownOffset |-> FALSE,
     extensionOffset |-> FALSE, isMessageSet |-> FALSE]

\* cf := &coderFieldInfo{...} for one field descriptor
NewCoderFieldInfo(fd) ==
    [num |-> fd.num, isPointer |-> fd.ptr, hasFuncs |-> fd.coder]

\* fields.ByNumber(n)
ByNumber(d, n) ==
    LET i == CHOOSE i \in 1..Len(d.fields) : d.fields[i].num = n
    IN  d.fields[i]

\* mi.Desc.Oneofs().Len() > 0
HasOneofs(d) == \E i \in 1..Len(d.fields) : d.fields[i].oneof # 0

\* the less function of the first sort.Slice
LessByNum(a, b) == a.num < b.num

\* fieldsort.Less on two fields of one message: non-oneof fields first by
\* number, then oneof members by oneof index, then by number
FieldsortLess(fi, fj) ==
    IF fi.oneof # 0 /\ fj.oneof # 0
    THEN IF fi.oneof = fj.oneof THEN fi.num < fj.num ELSE fi.oneof < fj.oneof
    ELSE IF fi.oneof # 0 THEN FALSE
    ELSE IF fj.oneof # 0 THEN TRUE
    ELSE fi.num < fj.num

\* a faulty variant: a threshold test that breaks on either condition alone
DenseBreakEither(num, maxDense) == num >= 16 \/ num >= 2 * maxDense

\* the test that ends the dense range
DenseBreak(num, maxDense) == num >= 16 /\ num >= 2 * maxDense

\* the first loop over the sorted fields: the last number before the break
RECURSIVE ScanMaxDense(_, _)
ScanMaxDense(fields, maxDense) ==
    IF fields = <<>> THEN maxDense
    ELSE IF DenseBreak(Head(fields).num, maxDense) THEN maxDense
    ELSE ScanMaxDense(Tail(fields), Head(fields).num)

\* the test that ends the fill loop
FillBreak(num, len) == num > len

\* the second loop: fill the array of length len; an index outside 0..len-1
\* is Go's index-out-of-range panic, which ends the build
RECURSIVE FillDense(_, _, _)
FillDense(fields, len, acc) ==
    IF fields = <<>> THEN acc
    ELSE LET cf == Head(fields) IN
         IF FillBreak(cf.num, len) THEN acc
         ELSE IF cf.num >= len
         THEN [acc EXCEPT !.outOfRange = TRUE,
                          !.writes = Append(acc.writes, cf.num)]
         ELSE FillDense(Tail(fields), len,
                        [acc EXCEPT !.arr[cf.num] = cf,
                                    !.writes = Append(acc.writes, cf.num)])

\* a faulty variant: the oneof re-sort is left out
Resort0(d, ordered) == ordered

\* "To preserve compatibility with historic wire output, marshal oneofs last."
Resort(d, ordered) ==
    IF HasOneofs(d)
    THEN SortSlice(ordered,
                   [a \in Range(ordered), b \in Range(ordered) |->
                       FieldsortLess(ByNumber(d, a.num), ByNumber(d, b.num))])
    ELSE ordered

\* a faulty variant: the dense array is filled from the declaration order
DenseSource0(appended, sorted) == appended

\* the list the two dense loops range over: orderedCoderFields after the first sort
DenseSource(appended, sorted) == sorted

makeCoderMethods(d, s) ==
    LET appended == [i \in 1..Len(d.fields) |-> NewCoderFieldInfo(d.fields[i])]
        coderFields == [n \in {appended[i].num : i \in 1..Len(appended)} |->
                          LET i == CHOOSE i \in 1..Len(appended) : appended[i].num = n
                          IN  appended[i]]
        base == [ZeroMessageInfo EXCEPT
                    !.built = TRUE,
                    !.sizecacheOffset = s.sizecacheOffset,
                    !.unknownOffset = s.unknownOffset,
                    !.extensionOffset = s.extensionOffset,
                    !.orderedCoderFields = appended,
                    !.coderFields = coderFields]
        sorted == SortSlice(appended,
                            [a \in Range(appended), b \in Range(appended) |->
                                LessByNum(a, b)])
        src == DenseSource(appended, sorted)
        maxDense == ScanMaxDense(src, 0)
        fill == FillDense(src, maxDense + 1,
                          [arr |-> [n \in 0..maxDense |-> Nil],
                           writes |-> <<>>, outOfRange |-> FALSE])
    IN  IF d.isMessageSet /\ (~s.extensionOffset \/ ~s.unknownOffset)
        THEN [base EXCEPT !.panicked = TRUE]
        ELSE IF fill.outOfRange
        THEN [base EXCEPT !.isMessageSet = d.isMessageSet,
                          !.orderedCoderFields = sorted,
                          !.denseCoderFields = fill.arr,
                          !.denseWrites = fill.writes,
                          !.outOfRange = TRUE,
                          !.panicked = TRUE]
        ELSE [base EXCEPT !.isMessageSet = d.isMessageSet,
                          !.orderedCoderFields = Resort(d, sorted),
                          !.denseCoderFields = fill.arr,
                          !.denseWrites = fill.writes]

----------------------------------------------------------------------------
(* Field and extension coders (pointerCoderFuncs, extensionFieldInfo).     *)
(* A stored value is "nil" (a pointer-like field that is unset), "zero" (a *)
(* scalar at its zero value, which the coder leaves out), "one" (a value   *)
(* the coder encodes) or "bad" (a value whose encode function fails).      *)

\* the tag and payload a field coder writes for a value
FieldBytes(num, v) == IF v = "zero" THEN <<>> ELSE <<num, 1>>

\* f.funcs.size(fptr, f, opts)
FuncsSize(cf, v) == Len(FieldBytes(cf.num, v))

\* f.funcs.marshal(b, fptr, f, opts)
FuncsMarshal(b, cf, v) ==
    IF v = "bad" THEN [b |-> b, err |-> TRUE]
    ELSE [b |-> b \o FieldBytes(cf.num, v), err |-> FALSE]

\* the tag and payload an extension coder writes for the entry numbered k
ExtBytes(k, v) == <<100 + k, k, 1>>

\* xi.funcs.size(x.Value(), xi.tagsize, opts)
ExtSize(k, v) == Len(ExtBytes(k, v))

\* xi.funcs.marshal(b, x.Value(), xi.wiretag, opts)
ExtMarshal(b, k, v) ==
    IF v = "bad" THEN [b |-> b, err |-> TRUE]
    ELSE [b |-> b \o ExtBytes(k, v), err |-> FALSE]

----------------------------------------------------------------------------
(* The size path.  A result carries the value and calls, the number of     *)
(* field and extension size functions invoked.                             *)

ProtoLegacy == desc.legacy

\* int32(size), and int(...) of the load: the slot is an int32, and a size below
\* 2^31 (every size here, and every integer TLC can hold) converts to itself
Int32(x) == x

\* sizeExtensions, ranging over the map in the order keys
RECURSIVE sizeExtensions(_, _)
sizeExtensions(ext, keys) ==
    IF keys = <<>> THEN [n |-> 0, calls |-> 0]
    ELSE LET rest == sizeExtensions(ext, Tail(keys)) IN
         [n |-> ExtSize(Head(keys), ext[Head(keys)]) + rest.n,
          calls |-> 1 + rest.calls]

\* the loop of sizePointerSlow over orderedCoderFields
RECURSIVE SizeFields(_, _)
SizeFields(fields, val) ==
    IF fields = <<>> THEN [n |-> 0, calls |-> 0]
    ELSE LET f == Head(fields)
             rest == SizeFields(Tail(fields), val)
         IN  IF ~f.hasFuncs THEN rest
             ELSE IF f.isPointer /\ val[f.num] = "nil" THEN rest
             ELSE [n |-> FuncsSize(f, val[f.num]) + rest.n, calls |-> 1 + rest.calls]

\* sizeMessageSet: one item per extension entry, then the unknown bytes
sizeMessageSet(t, p, keys) ==
    LET e == sizeExtensions(p.ext, keys) IN
    [n |-> e.n + 2 * Len(keys) + Len(p.unknown), calls |-> e.calls]

\* "if mi.unknownOffset.IsValid() { size += len(u) }"
SizeUnknown(t, p) == IF t.unknownOffset THEN Len(p.unknown) ELSE 0

\* a faulty variant: the message-set branch returns without storing
StoreMessageSetNever(t, size, old) == old

\* the store of the message-set branch: the slot's new content
StoreMessageSet(t, size, old) == IF t.sizecacheOffset THEN Int32(size) ELSE old

\* a faulty variant: the canonical branch returns without storing
StoreCanonicalNever(t, size, old) == old

\* the store of the canonical branch: the slot's new content
StoreCanonical(t, size, old) == IF t.sizecacheOffset THEN Int32(size) ELSE old

sizePointerSlow(t, p, keys) ==
    IF ProtoLegacy /\ t.isMessageSet
    THEN LET s == sizeMessageSet(t, p, keys) IN
         [size |-> s.n, calls |-> s.calls, wrote |-> t.sizecacheOffset,
          slot |-> StoreMessageSet(t, s.n, p.sizecache)]
    ELSE LET e == IF t.extensionOffset THEN sizeExtensions(p.ext, keys)
                  ELSE [n |-> 0, calls |-> 0]
             f == SizeFields(t.orderedCoderFields, p.val)
             size == e.n + f.n + SizeUnknown(t, p)
         IN  [size |-> size, calls |-> e.calls + f.calls, wrote |-> t.sizecacheOffset,
              slot |-> StoreCanonical(t, size, p.sizecache)]

\* a faulty variant: the slot is read whenever it exists, requested or not
UseSlotAlways(t, useCached) == t.sizecacheOffset

\* "opts.UseCachedSize() && mi.sizecacheOffset.IsValid()"
UseSlot(t, useCached) == useCached /\ t.sizecacheOffset

sizePointer(t, p, useCached, keys) ==
    IF p.isNil
    THEN [size |-> 0, calls |-> 0, wrote |-> FALSE, slot |-> p.sizecache, slow |-> FALSE]
    ELSE IF UseSlot(t, useCached)
    THEN [size |-> p.sizecache, calls |-> 0, wrote |-> FALSE, slot |-> p.sizecache,
          slow |-> FALSE]
    ELSE LET s == sizePointerSlow(t, p, keys) IN
         [size |-> s.size, calls |-> s.calls, wrote |-> s.wrote, slot |-> s.slot,
          slow |-> TRUE]

----------------------------------------------------------------------------
(* The marshal path.  A result carries the buffer, the error flag and      *)
(* calls, the encode functions invoked, in order.                          *)

\* a faulty variant: the keys are encoded in the order the map yields them
SortKeys0(keys) == keys

\* sort.Ints(keys)
SortKeys(keys) == SortSlice(keys, [a \in Range(keys), b \in Range(keys) |-> a < b])

\* the loop of appendExtensions' default case over the sorted keys
RECURSIVE AppendSorted(_, _, _, _)
AppendSorted(b, ext, keys, calls) ==
    IF keys = <<>> THEN [b |-> b, err |-> FALSE, calls |-> calls]
    ELSE LET r == ExtMarshal(b, Head(keys), ext[Head(keys)])
             c == Append(calls, <<"ext", Head(keys)>>)
         IN  IF r.err THEN [b |-> r.b, err |-> TRUE, calls |-> c]
             ELSE AppendSorted(r.b, ext, Tail(keys), c)

\* appendExtensions, the map yielding its keys in the order keys
appendExtensions(b, ext, keys) ==
    IF Len(keys) = 0 THEN [b |-> b, err |-> FALSE, calls |-> <<>>]
    ELSE IF Len(keys) = 1
    THEN LET r == ExtMarshal(b, keys[1], ext[keys[1]]) IN
         [b |-> r.b, err |-> r.err, calls |-> << <<"ext", keys[1]>> >>]
    ELSE AppendSorted(b, ext, SortKeys(keys), <<>>)

\* a faulty variant: a failed field is passed over and the walk goes on
FieldFailed0(err) == FALSE

\* "if err != nil { return b, err }" of the field loop
FieldFailed(err) == err

\* the loop of marshalAppendPointer over orderedCoderFields
RECURSIVE AppendFields(_, _, _, _)
AppendFields(b, fields, val, calls) ==
    IF fields = <<>> THEN [b |-> b, err |-> FALSE, calls |-> calls]
    ELSE LET f == Head(fields) IN
         IF ~f.hasFuncs THEN AppendFields(b, Tail(fields), val, calls)
         ELSE IF f.isPointer /\ val[f.num] = "nil"
         THEN AppendFields(b, Tail(fields), val, calls)
         ELSE LET r == FuncsMarshal(b, f, val[f.num])
                  c == Append(calls, <<"field", f.num>>)
              IN  IF FieldFailed(r.err) THEN [b |-> r.b, err |-> TRUE, calls |-> c]
                  ELSE AppendFields(r.b, Tail(fields), val, c)

\* the items of marshalMessageSet, one per extension entry in ascending order
RECURSIVE AppendItems(_, _, _, _)
AppendItems(b, ext, keys, calls) ==
    IF keys = <<>> THEN [b |-> b, err |-> FALSE, calls |-> calls]
    ELSE LET r == ExtMarshal(b \o <<11>>, Head(keys), ext[Head(keys)])
             c == Append(calls, <<"ext", Head(keys)>>)
         IN  IF r.err THEN [b |-> r.b, err |-> TRUE, calls |-> c]
             ELSE AppendItems(r.b \o <<12>>, ext, Tail(keys), c)

\* marshalMessageSet: the items, then the unknown bytes folded in
marshalMessageSet(t, b, p, keys) ==
    LET r == AppendItems(b, p.ext, SortKeys(keys), <<>>) IN
    IF r.err THEN r ELSE [r EXCEPT !.b = r.b \o p.unknown]

\* a faulty variant: the unknown bytes are never appended
AppendUnknown0(t, b, p) == b

\* "if mi.unknownOffset.IsValid() && !mi.isMessageSet { b = append(b, u...) }"
AppendUnknown(t, b, p) ==
    IF t.unknownOffset /\ ~t.isMessageSet THEN b \o p.unknown ELSE b

marshalAppendPointer(t, b, p, keys) ==
    IF p.isNil THEN [b |-> b, err |-> FALSE, calls |-> <<>>]
    ELSE IF ProtoLegacy /\ t.isMessageSet THEN marshalMessageSet(t, b, p, keys)
    ELSE LET e == IF t.extensionOffset THEN appendExtensions(b, p.ext, keys)
                  ELSE [b |-> b, err |-> FALSE, calls |-> <<>>]
         IN  IF e.err THEN e
             ELSE LET f == AppendFields(e.b, t.orderedCoderFields, p.val, e.calls) IN
                  IF f.err THEN f
                  ELSE [f EXCEPT !.b = AppendUnknown(t, f.b, p)]

\* MessageInfo.init: the table is built by the first call that needs it
MessageInfoInit(t) == IF t.built THEN t ELSE makeCoderMethods(desc, si)

----------------------------------------------------------------------------
(* Inputs.                                                                 *)

\* the field descriptors over the numbers S, in every declaration order
FieldLists(S, Oneofs, Ptrs, Coders) ==
    UNION {{[i \in 1..Len(p) |-> [num |-> p[i], oneof |-> o[p[i]],
                                   ptr |-> q[p[i]], coder |-> c[p[i]]]] :
               o \in [S -> Oneofs], q \in [S -> Ptrs], c \in [S -> Coders]} :
           p \in Perms(S)}

AllSlots == [sizecacheOffset |-> TRUE, unknownOffset |-> TRUE, extensionOffset |-> TRUE]

SlotChoices == [sizecacheOffset : BOOLEAN, unknownOffset : BOOLEAN,
                extensionOffset : BOOLEAN]

NilInstance == [isNil |-> TRUE, ext |-> <<>>, val |-> <<>>, unknown |-> <<>>,
                sizecache |-> 0]

NoCall == [op |-> "none"]

Goroutines == 1..MaxGoroutines

\* a goroutine that has made no call
Idle == [pc |-> "idle", useCached |-> FALSE, ret |-> [v |-> -1], calls |-> 0]

----------------------------------------------------------------------------
(* The table-build specification.                                          *)

InitBuild ==
    /\ \/ /\ \E S \in SUBSET BuildNums :
                /\ Cardinality(S) <= MaxFields
                /\ \E fl \in FieldLists(S, {0, 1, 2}, {FALSE}, {TRUE}) :
                      desc = [fields |-> fl, isMessageSet |-> FALSE, legacy |-> FALSE]
          /\ si = AllSlots
       \/ /\ \E S \in SUBSET FieldNums :
                \E fl \in FieldLists(S, {0}, {FALSE}, {TRUE}) : \E ms \in BOOLEAN :
                      desc = [fields |-> fl, isMessageSet |-> ms, legacy |-> FALSE]
          /\ si \in SlotChoices
    /\ mi = ZeroMessageInfo
    /\ m = NilInstance
    /\ last = NoCall
    /\ scratchRet = -1
    /\ thr = <<>>

\* MessageInfo.init reaching makeCoderMethods, once
Build ==
    /\ ~mi.built
    /\ mi' = makeCoderMethods(desc, si)
    /\ UNCHANGED <<desc, si, m, last, scratchRet, thr>>

NextBuild == Build

SpecBuild == InitBuild /\ [][NextBuild]_vars

----------------------------------------------------------------------------
(* The specification of size and marshal calls on one instance.  The       *)
(* instance's fields, extensions and unknown bytes are fixed by Init: no   *)
(* call mutates them, and only the size-cache slot changes.                *)

\* what a field can be: oneof index, pointer-like, has coder functions, value
AnyField == {o \in [oneof : {0, 1}, ptr : BOOLEAN, coder : BOOLEAN,
                    v : {"nil", "zero", "one", "bad"}] :
                /\ o.v = "nil" => o.ptr
                /\ o.v = "zero" => ~o.ptr
                /\ ~o.coder => (~o.ptr /\ o.v = "one")}

\* a scalar field outside any oneof, holding a value its coder encodes
PlainField == [oneof |-> 0, ptr |-> FALSE, coder |-> TRUE, v |-> "one"]

\* field 1 is any field; field 2 is a coded field outside any oneof
FieldChoice(n) ==
    IF n = 1 THEN AnyField
    ELSE {o \in AnyField : o.oneof = 0 /\ o.coder /\ o.v \in {"nil", "one", "bad"}
                           /\ (o.ptr <=> o.v = "nil")}

\* the numbers S in descending order: the declaration order of the types here
RECURSIVE Descending(_)
Descending(S) == IF S = {} THEN <<>> ELSE <<Max(S)>> \o Descending(S \ {Max(S)})

Unknowns == {[i \in 1..n |-> 7] : n \in 0..MaxUnknown}

Bufs == {[i \in 1..n |-> 0] : n \in 0..MaxBuf}

\* the type with the fields c, and a non-nil instance of it holding their
\* values, the extension entries x and the unknown bytes u
TypeAndInstance(c, ms, lg, x, u) ==
    /\ ms => (si.extensionOffset /\ si.unknownOffset)
    /\ ~si.extensionOffset => DOMAIN x = {}
    /\ ~si.unknownOffset => u = <<>>
    /\ desc = [fields |-> [i \in 1..Cardinality(DOMAIN c) |->
                             LET n == Descending(DOMAIN c)[i] IN
                             [num |-> n, oneof |-> c[n].oneof,
                              ptr |-> c[n].ptr, coder |-> c[n].coder]],
               isMessageSet |-> ms, legacy |-> lg]
    /\ m = [isNil |-> FALSE, ext |-> x, val |-> [n \in DOMAIN c |-> c[n].v],
            unknown |-> u, sizecache |-> 0]

\* every struct layout and flag, over types of plain fields
InitLayouts ==
    /\ si \in SlotChoices
    /\ \E S \in SUBSET FieldNums : \E ms \in BOOLEAN : \E lg \in BOOLEAN :
       \E K \in SUBSET (ExtNums \ {3}) : \E x \in [K -> {"one", "bad"}] :
       \E u \in Unknowns :
          TypeAndInstance([n \in S |-> PlainField], ms, lg, x, u)

\* every choice of fields, in the struct layout that has the three slots
InitFields ==
    /\ si = AllSlots
    /\ \E S \in SUBSET FieldNums : \E c \in [S -> AnyField] :
       \E ms \in BOOLEAN : \E lg \in BOOLEAN :
       \E K \in SUBSET (ExtNums \ {3}) : \E x \in [K -> {"one", "bad"}] :
       \E u \in Unknowns :
          /\ \A n \in S : c[n] \in FieldChoice(n)
          /\ lg => ms
          /\ TypeAndInstance(c, ms, lg, x, u)

\* three extension entries on an instance of a one-field type
InitExtensions ==
    /\ si = AllSlots
    /\ \E x \in [ExtNums -> {"one", "bad"}] : \E u \in Unknowns :
          TypeAndInstance([n \in {1} |-> PlainField], FALSE, FALSE, x, u)

\* a nil instance
InitNil ==
    /\ si = AllSlots
    /\ desc = [fields |-> << [num |-> 1, oneof |-> 0, ptr |-> FALSE, coder |-> TRUE] >>,
               isMessageSet |-> FALSE, legacy |-> FALSE]
    /\ m = NilInstance

Init ==
    /\ InitLayouts \/ InitFields \/ InitExtensions \/ InitNil
    /\ mi = ZeroMessageInfo
    /\ last = NoCall
    /\ scratchRet = -1
    /\ thr = <<>>

\* MessageInfo.size: one whole call, the map yielding its keys in the order keys
Size ==
    \E useCached \in BOOLEAN : \E keys \in Perms(DOMAIN m.ext) :
        LET t == MessageInfoInit(mi)
            r == sizePointer(t, m, useCached, keys)
        IN  /\ mi' = t
            /\ m' = [m EXCEPT !.sizecache = r.slot]
            /\ last' = [op |-> "size", useCached |-> useCached, ret |-> r.size,
                        calls |-> r.calls, wrote |-> r.wrote, slow |-> r.slow]
            /\ scratchRet' = IF r.slow THEN r.size ELSE scratchRet
            /\ UNCHANGED <<desc, si, thr>>

\* MessageInfo.marshal: one whole call appending to the buffer b
Marshal ==
    \E b \in Bufs : \E keys \in Perms(DOMAIN m.ext) :
        LET t == MessageInfoInit(mi)
            r == marshalAppendPointer(t, b, m, keys)
        IN  /\ mi' = t
            /\ last' = [op |-> "marshal", in |-> b, out |-> r.b, err |-> r.err,
                        calls |-> r.calls]
            /\ UNCHANGED <<desc, si, m, scratchRet, thr>>

Next == Size \/ Marshal

Spec == Init /\ [][Next]_vars

----------------------------------------------------------------------------
(* The specification of concurrent size calls on one instance.  A call     *)
(* touches shared memory once: the atomic load of sizePointer or the       *)
(* atomic store of sizePointerSlow; everything else it does is local and   *)
(* is one step with that access.  last.rets collects what calls returned.  *)

InitConc ==
    /\ \/ /\ si \in {s \in SlotChoices : s.extensionOffset /\ s.unknownOffset}
          /\ \E u \in Unknowns :
                TypeAndInstance([n \in FieldNums |-> PlainField], FALSE, FALSE,
                                [k \in {5} |-> "one"], u)
       \/ InitNil
    /\ mi = ZeroMessageInfo
    /\ last = [op |-> "sizes", rets |-> {}]
    /\ scratchRet = -1
    /\ thr = [g \in Goroutines |-> Idle]

\* goroutine g calls MessageInfo.size with some options
Go(g) ==
    /\ thr[g].pc = "idle"
    /\ thr[g].calls < MaxCalls
    /\ \E useCached \in BOOLEAN :
          thr' = [thr EXCEPT ![g] = [@ EXCEPT !.pc = "sizePointer",
                                              !.useCached = useCached,
                                              !.calls = @ + 1]]
    /\ UNCHANGED <<desc, si, mi, m, last, scratchRet>>

\* the body of sizePointer up to and with its one access to the slot
SizePointer(g) ==
    /\ thr[g].pc = "sizePointer"
    /\ \E keys \in Perms(DOMAIN m.ext) :
          LET t == MessageInfoInit(mi)
              r == sizePointer(t, m, thr[g].useCached, keys)
          IN  /\ mi' = t
              /\ m' = [m EXCEPT !.sizecache = r.slot]
              /\ scratchRet' = IF r.slow THEN r.size ELSE scratchRet
              /\ thr' = [thr EXCEPT ![g] =
                           [@ EXCEPT !.pc = "return",
                                     !.ret = [v |-> r.size, slow |-> r.slow,
                                              useCached |-> thr[g].useCached,
                                              stored |-> scratchRet # -1]]]
    /\ UNCHANGED <<desc, si, last>>

\* the caller of goroutine g receives the value
Return(g) ==
    /\ thr[g].pc = "return"
    /\ last' = [last EXCEPT !.rets = @ \cup {thr[g].ret}]
    /\ thr' = [thr EXCEPT ![g] = [@ EXCEPT !.pc = "idle"]]
    /\ UNCHANGED <<desc, si, mi, m, scratchRet>>

NextConc == \E g \in Goroutines : Go(g) \/ SizePointer(g) \/ Return(g)

SpecConc == InitConc /\ [][NextConc]_vars

----------------------------------------------------------------------------
(* Properties of size and marshal.                                         *)

\* the call ran the canonical walk, not the message-set codec
Canonical == ~(ProtoLegacy /\ mi.isMessageSet)

\* a completed call on a non-nil instance
Called(op) == last.op = op /\ ~m.isNil

\* the elements of S in ascending order
Ascending(S) == CHOOSE s \in Perms(S) : \A i, j \in 1..Len(s) : i < j => s[i] < s[j]

\* the field is neither without coder functions nor a nil pointer
Encoded(cf) == cf.hasFuncs /\ ~(cf.isPointer /\ m.val[cf.num] = "nil")

\* the units of the canonical output, in order: the extension entries by
\* ascending number, then the encoded fields in the order of orderedCoderFields
ExpectedUnits ==
    LET keys == IF mi.extensionOffset THEN Ascending(DOMAIN m.ext) ELSE <<>>
        fields == SelectSeq(mi.orderedCoderFields, Encoded)
    IN  [i \in 1..Len(keys) |-> <<"ext", keys[i]>>]
        \o [i \in 1..Len(fields) |-> <<"field", fields[i].num>>]

UnitBad(u) == IF u[1] = "ext" THEN m.ext[u[2]] = "bad" ELSE m.val[u[2]] = "bad"

UnitBytes(u) ==
    IF u[1] = "ext" THEN ExtBytes(u[2], m.ext[u[2]]) ELSE FieldBytes(u[2], m.val[u[2]])

RECURSIVE Concat(_)
Concat(ss) == IF ss = <<>> THEN <<>> ELSE Head(ss) \o Concat(Tail(ss))

\* the bytes of the first n expected units
UnitsBytes(n) == Concat([i \in 1..n |-> UnitBytes(ExpectedUnits[i])])

AnyBad == \E i \in 1..Len(ExpectedUnits) : UnitBad(ExpectedUnits[i])

\* the position of the first unit whose encode function fails
FirstBad ==
    CHOOSE i \in 1..Len(ExpectedUnits) :
        UnitBad(ExpectedUnits[i]) /\ \A j \in 1..(i - 1) : ~UnitBad(ExpectedUnits[j])

\* C1: when no encode function fails, the number of bytes marshal appends
\* equals the value size returned when it computed from scratch, in every table
\* configuration (slots, message-set flag, legacy build flag).
C1_MarshalLenIsSize ==
    (Called("marshal") /\ ~last.err /\ scratchRet # -1) =>
        Len(last.out) - Len(last.in) = scratchRet

C3_ExtensionOrder ==
    (Called("marshal") /\ Canonical) =>
        /\ \A keys \in Perms(DOMAIN m.ext) :
              LET r == marshalAppendPointer(mi, last.in, m, keys) IN
              r.b = last.out /\ r.err = last.err /\ r.calls = last.calls
        /\ \A i, j \in 1..Len(last.calls) :
              (i < j /\ last.calls[i][1] = "ext" /\ last.calls[j][1] = "ext")
                 => last.calls[i][2] < last.calls[j][2]

\* three entries 3, 5, 9 encoded in that order after the input buffer
C3_Witness ==
    /\ Called("marshal") /\ Canonical /\ ~last.err
    /\ DOMAIN m.ext = {3, 5, 9}
    /\ Len(last.in) = 1
    /\ SubSeq(last.out, 2, 10)
          = ExtBytes(3, "one") \o ExtBytes(5, "one") \o ExtBytes(9, "one")

\* C6: on the canonical path, when an encode function fails marshal returns the
\* error with the input buffer followed by the bytes of the units encoded
\* before the failure; the failing function is the last one invoked, and the
\* unknown bytes are not appended.
C6_ErrorStopsWalk ==
    (Called("marshal") /\ Canonical /\ AnyBad) =>
        /\ last.err
        /\ last.calls = SubSeq(ExpectedUnits, 1, FirstBad)
        /\ last.out = last.in \o UnitsBytes(FirstBad - 1)

\* a failure after one unit was encoded, with a unit and unknown bytes left
C6_Witness ==
    /\ Called("marshal") /\ Canonical /\ last.err
    /\ Len(last.calls) >= 2
    /\ Len(ExpectedUnits) > Len(last.calls)
    /\ m.unknown # <<>>
    /\ Len(last.out) > Len(last.in)

C8_SizeCache ==
    [][(mi'.built /\ mi'.sizecacheOffset /\ ~m.isNil) =>
          /\ (last'.op = "size" /\ last'.slow) =>
                (last'.wrote /\ m'.sizecache = last'.ret /\ scratchRet' = last'.ret)
          /\ (last'.op = "size" /\ last'.useCached /\ scratchRet # -1) =>
                /\ last'.ret = scratchRet
                /\ last'.calls = 0
                /\ ~last'.wrote
                /\ m'.sizecache = m.sizecache
          /\ last'.op = "marshal" => m'.sizecache = m.sizecache]_vars

\* a cached size call returning what the message-set size routine stored
C8_Witness ==
    /\ Called("size") /\ last.useCached /\ mi.sizecacheOffset
    /\ ~Canonical
    /\ scratchRet > 0
    /\ last.ret = scratchRet /\ last.calls = 0 /\ ~last.wrote

\* the value a from-scratch size computation gives for the instance
ScratchSize == sizePointerSlow(mi, m, Ascending(DOMAIN m.ext)).size

\* the calls that are in flight together and have their value
InFlight == {g \in Goroutines : thr[g].pc = "return"}

----------------------------------------------------------------------------
(* Properties of the built table.                                          *)

Built == mi.built /\ ~mi.panicked

DescNums == {desc.fields[i].num : i \in 1..Len(desc.fields)}

IsOneofMember(n) == ByNumber(desc, n).oneof # 0

\* the largest field number below n, 0 when there is none
PrevNum(n) == Max({k \in DescNums : k < n} \cup {0})

\* the fields at which an ascending scan would end the dense range
Breakers == {n \in DescNums : n >= 16 /\ n >= 2 * PrevNum(n)}

\* the last field number reached before the first breaker
LastDense ==
    IF Breakers = {} THEN Max(DescNums \cup {0})
    ELSE PrevNum(CHOOSE b \in Breakers : \A c \in Breakers : b <= c)

\* C4: in a built table orderedCoderFields lists every field of the type once;
\* with a oneof group every non-oneof field precedes every oneof member and the
\* non-oneof fields ascend by number; with no oneof group the whole list ascends.
C4_OrderedFields ==
    Built =>
        LET o == mi.orderedCoderFields IN
        /\ Len(o) = Len(desc.fields)
        /\ {o[i].num : i \in 1..Len(o)} = DescNums
        /\ \A i \in 1..Len(o) : o[i] = mi.coderFields[o[i].num]
        /\ \A i, j \in 1..Len(o) :
              i < j =>
                IF HasOneofs(desc)
                THEN /\ ~(IsOneofMember(o[i].num) /\ ~IsOneofMember(o[j].num))
                     /\ (~IsOneofMember(o[i].num) /\ ~IsOneofMember(o[j].num))
                            => o[i].num < o[j].num
                ELSE o[i].num < o[j].num

\* fields 1 (plain), 2 (oneof member), 8 (plain) are ordered 1, 8, 2
C4_Witness ==
    /\ Built
    /\ Len(mi.orderedCoderFields) = 3
    /\ IsOneofMember(2) /\ ~IsOneofMember(1) /\ ~IsOneofMember(8)
    /\ [i \in 1..3 |-> mi.orderedCoderFields[i].num] = <<1, 8, 2>>

\* C5: for every index n the dense array covers, denseCoderFields[n] is the
\* record coderFields[n] when the type has a field numbered n and nil when it
\* has none, in the table as left by the build (after the oneof re-sort).
C5_DenseAgrees ==
    Built =>
        \A n \in DOMAIN mi.denseCoderFields :
            IF n \in DescNums
            THEN mi.denseCoderFields[n] = mi.coderFields[n]
            ELSE mi.denseCoderFields[n] = Nil

\* a re-sorted table whose dense array holds a field and a gap above it
C5_Witness ==
    /\ Built
    /\ HasOneofs(desc)
    /\ \E i \in 1..Len(mi.orderedCoderFields) - 1 :
          mi.orderedCoderFields[i].num > mi.orderedCoderFields[i + 1].num
    /\ \E n \in DOMAIN mi.denseCoderFields :
          /\ n \in DescNums
          /\ n + 1 \in DOMAIN mi.denseCoderFields
          /\ n + 1 \notin DescNums

\* C10: the build never writes outside the dense array: the array has length
\* LastDense + 1, the fill loop writes exactly the fields numbered at most
\* LastDense, in ascending order, and every field numbered below 16 is stored.
C10_DenseInRange ==
    mi.built /\ ~(desc.isMessageSet /\ ~(si.extensionOffset /\ si.unknownOffset)) =>
        /\ ~mi.outOfRange
        /\ ~mi.panicked
        /\ DOMAIN mi.denseCoderFields = 0..LastDense
        /\ Range(mi.denseWrites) = {n \in DescNums : n <= LastDense}
        /\ Len(mi.denseWrites) = Cardinality({n \in DescNums : n <= LastDense})
        /\ \A i \in 1..Len(mi.denseWrites) : mi.denseWrites[i] \in 0..LastDense
        /\ \A n \in DescNums :
              (n < 16 \/ n <= LastDense) =>
                 /\ n \in DOMAIN mi.denseCoderFields
                 /\ mi.denseCoderFields[n].num = n

\* a field numbered 16 or more is stored and a later one is left out
C10_Witness ==
    /\ Built
    /\ \E n \in DescNums : n >= 16 /\ n <= LastDense
    /\ \E n \in DescNums : n > LastDense + 1
    /\ Len(mi.denseWrites) = 2

====
